---- MODULE Spec2Model ----
(***************************************************************************)
(* Model of python/paddle/fluid/contrib/utils/lookup_table_utils.py:       *)
(* convert_dist_to_sparse_program, load_persistables_for_increment and     *)
(* load_persistables_for_inference, acting on a Program (the ops and vars  *)
(* of its global block and its _distributed_lookup_table) and on the       *)
(* executor that runs the load programs.                                   *)
(***************************************************************************)
EXTENDS Integers, Sequences, FiniteSets, TLC

VARIABLES
    ops,        \* program.global_block().ops, a Python list of operators
    vars,       \* program.global_block().vars: name -> variable descriptor
    table,      \* program._distributed_lookup_table
    executed,   \* the programs the executor has run, in order
    call        \* the latest call: function, arguments read, outcome

vars_all == <<ops, vars, table, executed, call>>

(***************************************************************************)
(* Bounds of the model.                                                    *)
(***************************************************************************)
MaxOps == 6      \* longest op list of a program under conversion
MaxVars == 2     \* dense variables of a program under load
MaxFiles == 2    \* entries of dirname/__lookup_table__

(***************************************************************************)
(* Python values.                                                          *)
(***************************************************************************)
None == "<None>"

\* bool(x) of a str-or-None value, as `if not x` / `if x` test it
Truthy(x) == x # None /\ x # ""

\* os.path.join(a, b)
Join(a, b) == a \o "/" \o b

\* `sub in s` on Python strings
Contains(sub, s) ==
    \E i \in 1..(Len(s) - Len(sub) + 1) : SubSeq(s, i, i + Len(sub) - 1) = sub

\* s.endswith(suffix)
EndsWith(s, suffix) ==
    /\ Len(s) >= Len(suffix)
    /\ SubSeq(s, Len(s) - Len(suffix) + 1, Len(s)) = suffix

\* lst[i] of a Python list, i counted from 0, a negative i counted from the end
PyAt(lst, i) == IF i < 0 THEN lst[Len(lst) + i + 1] ELSE lst[i + 1]

\* del lst[i], for i within range (negative i counted from the end)
PyDel(lst, i) ==
    LET k == IF i < 0 THEN Len(lst) + i + 1 ELSE i + 1
    IN  SubSeq(lst, 1, k - 1) \o SubSeq(lst, k + 1, Len(lst))

\* lst.insert(i, x): a negative i counts from the end, out-of-range i is clamped
PyInsert(lst, i, x) ==
    LET j == IF i < 0 THEN Len(lst) + i ELSE i
        k == IF j < 0 THEN 0 ELSE IF j > Len(lst) THEN Len(lst) ELSE j
    IN  SubSeq(lst, 1, k) \o <<x>> \o SubSeq(lst, k + 1, Len(lst))

\* zip(a, b): stops at the shorter list
Zip(a, b) ==
    LET n == IF Len(a) < Len(b) THEN Len(a) ELSE Len(b)
    IN  [k \in 1..n |-> <<a[k], b[k]>>]

(***************************************************************************)
(* Operators and variables of a block.                                     *)
(***************************************************************************)
NoAttrs == {}

Op(type, ids, w, out, attrs) ==
    [type |-> type, Ids |-> ids, W |-> w, Out |-> out, attrs |-> attrs]

VarDesc(type, persistable, shape, dtype) ==
    [type |-> type, persistable |-> persistable, shape |-> shape, dtype |-> dtype]

\* Block.create_var(name=..., ...) on a block that has no such variable yet
create_var(vs, name, desc) ==
    [n \in DOMAIN vs \cup {name} |-> IF n = name THEN desc ELSE vs[n]]

\* Block._rename_var(name, new_name): the variable moves to the new name
rename_var(vs, name, new_name) ==
    [n \in (DOMAIN vs \ {name}) \cup {new_name} |->
        IF n = new_name THEN vs[name] ELSE vs[n]]

(***************************************************************************)
(* convert_dist_to_sparse_program                                          *)
(***************************************************************************)
LookupAttrs ==
    {<<"is_distributed", FALSE>>, <<"is_sparse", TRUE>>, <<"grad_inplace", FALSE>>}

\* __insert_lookup_sparse_table_op(main_program, idx, ids, w, out)
insert_lookup_sparse_table_op(block_ops, idx, ids, w, out) ==
    PyInsert(block_ops, idx,
             Op("lookup_sparse_table", <<ids>>, <<w>>, <<out>>, LookupAttrs))

\* the body of the loop of __get_prefetch_op_tuples from index i on
RECURSIVE ScanPrefetch(_, _)
ScanPrefetch(block_ops, i) ==
    IF i >= Len(block_ops)
    THEN [kind |-> "None", split_ids_op_id |-> 0,
          split_ids_inputs |-> <<>>, merge_ids_outputs |-> <<>>]
    ELSE IF PyAt(block_ops, i).type = "prefetch"
            /\ PyAt(block_ops, i - 1).type = "split_ids"
         THEN IF i + 1 >= Len(block_ops)
              THEN [kind |-> "IndexError", split_ids_op_id |-> 0,
                    split_ids_inputs |-> <<>>, merge_ids_outputs |-> <<>>]
              ELSE IF PyAt(block_ops, i + 1).type = "merge_ids"
                   THEN [kind |-> "tuple", split_ids_op_id |-> i - 1,
                         split_ids_inputs |-> PyAt(block_ops, i - 1).Ids,
                         merge_ids_outputs |-> PyAt(block_ops, i + 1).Out]
                   ELSE ScanPrefetch(block_ops, i + 1)
         ELSE ScanPrefetch(block_ops, i + 1)

\* __get_prefetch_op_tuples(main_program)
get_prefetch_op_tuples(block_ops) == ScanPrefetch(block_ops, 0)

\* for idx in range(split_ids_id + 2, split_ids_id - 1, -1): _remove_op(idx)
\* stopping before the first negative idx when stop_at_negative
RECURSIVE RemoveOps(_, _, _, _)
RemoveOps(block_ops, idx, last, stop_at_negative) ==
    IF idx < last \/ (stop_at_negative /\ idx < 0)
    THEN block_ops
    ELSE RemoveOps(PyDel(block_ops, idx), idx - 1, last, stop_at_negative)

\* for in_out_pair in in_out_pairs: __insert_lookup_sparse_table_op(... idx ...)
RECURSIVE InsertPairs(_, _, _, _, _)
InsertPairs(block_ops, idx, pairs, k, w) ==
    IF k > Len(pairs)
    THEN block_ops
    ELSE InsertPairs(
            insert_lookup_sparse_table_op(block_ops, idx, pairs[k][1], w, pairs[k][2]),
            idx, pairs, k + 1, w)

\* "{}.origin".format(program._distributed_lookup_table)
origin_name(emb_var) == emb_var \o ".origin"

\* the test written `is None`, which lets an empty table name through
no_lookup_table_is_none(t) == t = None

\* if not program._distributed_lookup_table
no_lookup_table(t) == ~Truthy(t)

\* the new table variable left a dense tensor
param_var_desc_dense(origin_param_var) ==
    VarDesc("LOD_TENSOR", TRUE, origin_param_var.shape, origin_param_var.dtype)

\* the new table variable: create_var(name=emb_var, shape=..., dtype=...,
\* type=SELECTED_ROWS, persistable=True)
param_var_desc(origin_param_var) ==
    VarDesc("SELECTED_ROWS", TRUE, origin_param_var.shape, origin_param_var.dtype)

ConvertCall(result) ==
    [fn |-> "convert_dist_to_sparse_program", dirname_isdir |-> FALSE,
     path_exists |-> FALSE, program |-> "Program", model |-> "unread",
     lookup_dir_exists |-> FALSE, listing |-> <<>>, result |-> result]

\* convert_dist_to_sparse_program(program).  A negative index handed to
\* Block._remove_op / Block._insert_op either is taken as a Python list takes
\* it or is refused by the block's C++ descriptor (negative_index_raises).
convert_dist_to_sparse_program ==
    IF no_lookup_table(table)
    THEN /\ call' = ConvertCall(None)
         /\ UNCHANGED <<ops, vars, table, executed>>
    ELSE IF table \notin DOMAIN vars
    THEN /\ call' = ConvertCall("ValueError")
         /\ UNCHANGED <<ops, vars, table, executed>>
    ELSE
      LET origin_emb_var == origin_name(table)
          renamed == rename_var(vars, table, origin_emb_var)
          created == create_var(renamed, table, param_var_desc(renamed[origin_emb_var]))
          t == get_prefetch_op_tuples(ops)
      IN  /\ vars' = created
          /\ UNCHANGED <<table, executed>>
          /\ IF t.kind = "None"
             THEN /\ call' = ConvertCall("TypeError")
                  /\ UNCHANGED ops
             ELSE IF t.kind = "IndexError"
             THEN /\ call' = ConvertCall("IndexError")
                  /\ UNCHANGED ops
             ELSE
               \E negative_index_raises \in BOOLEAN :
                 LET split_ids_id == t.split_ids_op_id
                     in_out_pairs == Zip(t.split_ids_inputs, t.merge_ids_outputs)
                 IN  IF split_ids_id < 0 /\ negative_index_raises
                     THEN /\ ops' = RemoveOps(ops, split_ids_id + 2, split_ids_id, TRUE)
                          /\ call' = ConvertCall("TypeError")
                     ELSE /\ ops' = InsertPairs(
                                       RemoveOps(ops, split_ids_id + 2, split_ids_id, FALSE),
                                       split_ids_id, in_out_pairs, 1, table)
                          /\ call' = ConvertCall("program")

(***************************************************************************)
(* _load_persistable_vars and the two loaders                              *)
(***************************************************************************)
\* arguments of the loaders that the model keeps fixed
Dirname == "ckpt"
LookupTableVar == "emb"
LookupTableVarPath == "pserver0/emb.shard"

\* model_filename, lookup_table_dir
model_filename == "__model__"
lookup_table_dir == "__lookup_table__"

EmptyVars == [n \in {} |-> None]

LoadOp(out, file_path) ==
    [type |-> "load", X |-> <<>>, Out |-> <<out>>, file_path |-> file_path]

\* a program handed to executor.run
Run(by, main_program, loaded, run_ops, block_vars) ==
    [by |-> by, main_program |-> main_program, loaded |-> loaded,
     ops |-> run_ops, block_vars |-> block_vars]

\* name in exclude_fluid_vars (a Python list)
InList(name, lst) == \E k \in 1..Len(lst) : lst[k] = name

\* is_valid without its "tmp_" test
is_valid_no_tmp(name, desc, exclude_fluid_vars) ==
    IF desc.type = "FEED_MINIBATCH" \/ desc.type = "FETCH_LIST" \/ desc.type = "RAW"
    THEN FALSE
    ELSE IF Contains("@GRAD", name) THEN FALSE
    ELSE IF Contains(".trainer_", name) THEN FALSE
    ELSE IF Contains(".block", name) THEN FALSE
    ELSE IF InList(name, exclude_fluid_vars) THEN FALSE
    ELSE desc.persistable

\* _is_checkpoint_var(exclude_fluid_vars).is_valid(var)
is_valid(name, desc, exclude_fluid_vars) ==
    IF desc.type = "FEED_MINIBATCH" \/ desc.type = "FETCH_LIST" \/ desc.type = "RAW"
    THEN FALSE
    ELSE IF Contains("@GRAD", name) THEN FALSE
    ELSE IF Contains(".trainer_", name) THEN FALSE
    ELSE IF Contains(".block", name) THEN FALSE
    ELSE IF Contains("tmp_", name) THEN FALSE
    ELSE IF InList(name, exclude_fluid_vars) THEN FALSE
    ELSE desc.persistable

\* _load_persistable_vars that passes no exclusion list to the predicate
load_persistable_vars_all(dirname, main_program, vs, lookup_table_vars) ==
    Run("io.load_vars", main_program,
        {[var |-> n, file_path |-> Join(dirname, n)] :
            n \in {m \in DOMAIN vs : is_valid(m, vs[m], <<>>)}},
        <<>>, EmptyVars)

\* _load_persistable_vars(executor, dirname, program, lookup_table_vars):
\* io.load_vars loads every variable of the program that the predicate accepts
\* from the file dirname/<its name>
load_persistable_vars(dirname, main_program, vs, lookup_table_vars) ==
    Run("io.load_vars", main_program,
        {[var |-> n, file_path |-> Join(dirname, n)] :
            n \in {m \in DOMAIN vs : is_valid(m, vs[m], lookup_table_vars)}},
        <<>>, EmptyVars)

\* load_persistables_for_increment.__load_lookup_table_vars: the load program
increment_load_lookup_table_vars(lookup_table_var, lookup_table_var_path) ==
    Run("load_program", "Program", {},
        <<LoadOp(lookup_table_var, lookup_table_var_path)>>, EmptyVars)

\* the runs of a load_persistables_for_increment that passed its checks, up to
\* the ValueError of Block.var() when the program has no such variable
increment_runs(dirname, vs, lookup_table_var, lookup_table_var_path) ==
    <<load_persistable_vars(dirname, "Program", vs, <<lookup_table_var>>)>>
    \o (IF lookup_table_var \in DOMAIN vs
        THEN <<increment_load_lookup_table_vars(lookup_table_var, lookup_table_var_path)>>
        ELSE <<>>)

LoadCall(fn, isdir, path_exists, program, model, lookup_dir_exists, listing, result) ==
    [fn |-> fn, dirname_isdir |-> isdir, path_exists |-> path_exists,
     program |-> program, model |-> model,
     lookup_dir_exists |-> lookup_dir_exists, listing |-> listing,
     result |-> result]

\* isinstance(program, Program)
IsProgram(program) == program = "Program"

\* what load_persistables_for_increment raises before it loads, or "ok"
increment_check(isdir, path_exists, program) ==
    IF ~isdir THEN "ValueError: no directory"
    ELSE IF ~path_exists THEN "ValueError: no file"
    ELSE IF ~IsProgram(program) THEN "ValueError: not a Program"
    ELSE "ok"

\* load_persistables_for_increment(dirname, executor, program,
\*                                 lookup_table_var, lookup_table_var_path)
load_persistables_for_increment(isdir, path_exists, program) ==
    LET checked == increment_check(isdir, path_exists, program)
        outcome == IF checked # "ok" THEN checked
                   ELSE IF LookupTableVar \notin DOMAIN vars
                        THEN "ValueError: var not in block"
                        ELSE None
    IN  /\ executed' = IF checked # "ok" THEN <<>>
                       ELSE increment_runs(Dirname, vars, LookupTableVar,
                                           LookupTableVarPath)
        /\ call' = LoadCall("load_persistables_for_increment", isdir, path_exists,
                            program, "unread", FALSE, <<>>, outcome)
        /\ UNCHANGED <<ops, vars, table>>

\* "{}_{}".format(emb_var.name, i)
shard_name(emb_name, i) == emb_name \o "_" \o ToString(i)

\* emb_files without the name test: every entry of the directory
emb_files_all(listing, emb_var_name) == listing

\* emb_files: the names of os.listdir(lookup_table_dirname) that contain
\* emb_var_name, in listing order
emb_files_of(listing, emb_var_name) ==
    SelectSeq(listing, LAMBDA emb_name : Contains(emb_var_name, emb_name))

\* the file_path attribute of the i-th load op (i counted from 0)
shard_file_path(lookup_table_dirname, emb_name, emb_files, i) ==
    Join(lookup_table_dirname, shard_name(emb_name, i))

\* load_persistables_for_inference.__load_lookup_table_vars: convert_program
inference_load_lookup_table_vars(dirname, main_program, vs, lookup_table_vars, listing) ==
    LET lookup_table_dirname == Join(dirname, lookup_table_dir)
        emb_var_name == lookup_table_vars[1]
        emb_files == emb_files_of(listing, emb_var_name)
        sr == VarDesc("SELECTED_ROWS", TRUE, vs[emb_var_name].shape,
                      vs[emb_var_name].dtype)
        sums == [k \in 1..Len(emb_files) |-> shard_name(emb_var_name, k - 1)]
        loads == [k \in 1..Len(emb_files) |->
                    LoadOp(sums[k],
                           shard_file_path(lookup_table_dirname, emb_var_name,
                                           emb_files, k - 1))]
        sum_op == [type |-> "sum", X |-> sums, Out |-> <<emb_var_name>>,
                   file_path |-> ""]
        delete_op == [type |-> "delete_var", X |-> sums, Out |-> <<>>,
                      file_path |-> ""]
        names == {emb_var_name} \cup {sums[k] : k \in 1..Len(sums)}
    IN  Run("convert_program", main_program, {},
            loads \o <<sum_op>> \o <<delete_op>>,
            [n \in names |-> sr])

\* inference_check without the isinstance test of a given program
inference_check_no_isinstance(isdir, program, model) ==
    IF ~isdir THEN "ValueError: no directory"
    ELSE IF Truthy(program) THEN "ok"
    ELSE IF model = "missing" THEN "IOError"
    ELSE IF model = "unsupported" THEN "ValueError: unsupported version"
    ELSE "ok"

\* what load_persistables_for_inference raises before it loads, or "ok";
\* the __model__ file is read only when no program is given
inference_check(isdir, program, model) ==
    IF ~isdir THEN "ValueError: no directory"
    ELSE IF Truthy(program)
         THEN IF ~IsProgram(program) THEN "ValueError: not a Program" ELSE "ok"
         ELSE IF model = "missing" THEN "IOError"
         ELSE IF model = "unsupported" THEN "ValueError: unsupported version"
         ELSE "ok"

\* the program the loads go into: the given one or Program.parse_from_string
inference_program(program) == IF Truthy(program) THEN "Program" ELSE "parsed Program"

\* the runs of a load_persistables_for_inference that passed its checks
inference_runs(dirname, main_program, vs, emb_name, lookup_dir_exists, listing) ==
    <<load_persistable_vars(dirname, main_program, vs, <<emb_name>>)>>
    \o (IF emb_name \in DOMAIN vs /\ lookup_dir_exists
        THEN <<inference_load_lookup_table_vars(dirname, main_program, vs,
                                                <<emb_name>>, listing)>>
        ELSE <<>>)

\* load_persistables_for_inference(dirname, executor, program, lookup_table_var_name).
\* The program written in dirname/__model__ declares the variables `vars`.
load_persistables_for_inference(isdir, program, model, lookup_dir_exists, listing) ==
    LET checked == inference_check(isdir, program, model)
        main_program == inference_program(program)
        outcome == IF checked # "ok" THEN checked
                   ELSE IF LookupTableVar \notin DOMAIN vars
                        THEN "ValueError: var not in block"
                        ELSE IF ~lookup_dir_exists THEN "OSError"
                        ELSE main_program
    IN  /\ executed' = IF checked # "ok" THEN <<>>
                       ELSE inference_runs(Dirname, main_program, vars,
                                           LookupTableVar, lookup_dir_exists, listing)
        /\ call' = LoadCall("load_persistables_for_inference", isdir, FALSE,
                            program, model, lookup_dir_exists, listing, outcome)
        /\ UNCHANGED <<ops, vars, table>>

(***************************************************************************)
(* Programs, directory listings and arguments the model draws from.        *)
(***************************************************************************)
\* the table variable as the transpiler declares it
EmbDescs ==
    {VarDesc("LOD_TENSOR", TRUE, <<100, 8>>, "FP32"),
     VarDesc("LOD_TENSOR", TRUE, <<50, 16>>, "FP64")}

\* an ids or output variable of the lookup ops
PlainDesc == VarDesc("LOD_TENSOR", FALSE, <<1>>, "INT64")

OpAlphabet ==
    {Op("split_ids", <<"ids0">>, <<>>, <<>>, NoAttrs),
     Op("split_ids", <<"ids0", "ids1">>, <<>>, <<>>, NoAttrs),
     Op("prefetch", <<>>, <<>>, <<>>, NoAttrs),
     Op("merge_ids", <<>>, <<>>, <<"out0", "out1">>, NoAttrs),
     Op("mul", <<>>, <<>>, <<>>, NoAttrs)}

OpLists == UNION {[1..n -> OpAlphabet] : n \in 0..MaxOps}

ConvertVars(emb_desc) ==
    [n \in {"emb", "ids0", "ids1", "out0", "out1"} |->
        IF n = "emb" THEN emb_desc ELSE PlainDesc]

NoCall == [fn |-> "none", dirname_isdir |-> FALSE, path_exists |-> FALSE,
           program |-> "Program", model |-> "unread",
           lookup_dir_exists |-> FALSE, listing |-> <<>>, result |-> None]

\* a trainer program handed to convert_dist_to_sparse_program
InitConvert ==
    /\ ops \in OpLists
    /\ table \in {None, "", "emb"}
    /\ vars \in {ConvertVars(d) : d \in IF Truthy(table) THEN EmbDescs
                                         ELSE {CHOOSE x \in EmbDescs : TRUE}}
    /\ executed = <<>>
    /\ call = NoCall

DenseNames == {"fc_w", "fc_w@GRAD", "fc_w.trainer_0", "emb.block0", "tmp_0"}

DenseDescs ==
    {VarDesc(t, p, <<8, 4>>, "FP32") :
        t \in {"LOD_TENSOR", "FEED_MINIBATCH", "FETCH_LIST", "RAW"}, p \in BOOLEAN}

\* the table variable of a program under load
LoadEmbDesc == VarDesc("LOD_TENSOR", TRUE, <<100, 8>>, "FP32")

Merge(f, g) ==
    [n \in DOMAIN f \cup DOMAIN g |-> IF n \in DOMAIN f THEN f[n] ELSE g[n]]

LoadPrograms ==
    {Merge(e, d) :
        e \in {EmptyVars, [n \in {LookupTableVar} |-> LoadEmbDesc]},
        d \in UNION {[D -> DenseDescs] :
                        D \in {S \in SUBSET DenseNames : Cardinality(S) <= MaxVars}}}

\* a parameter-server or inference program handed to the loaders
InitLoad ==
    /\ ops = <<>>
    /\ table = None
    /\ vars \in LoadPrograms
    /\ executed = <<>>
    /\ call = NoCall

FileNames == {"emb_0", "emb_1", "fc_w_0"}

\* os.listdir: the entries in any order, none twice
Listings ==
    {l \in UNION {[1..n -> FileNames] : n \in 0..MaxFiles} :
        \A i, j \in 1..Len(l) : i # j => l[i] # l[j]}

\* the program argument: a Program, None, a str, an empty str
ProgramArgs == {"Program", None, "not a Program", ""}

Convert == convert_dist_to_sparse_program

\* a loader is called once, on an executor that has run nothing yet
LoadIncrement ==
    /\ call.fn = "none"
    /\ \E isdir \in BOOLEAN, path_exists \in BOOLEAN, program \in ProgramArgs :
          load_persistables_for_increment(isdir, path_exists, program)

\* the __model__ file and the listing are drawn only when the call reads them
LoadInference ==
    /\ call.fn = "none"
    /\ \E isdir \in BOOLEAN, program \in ProgramArgs :
        \E model \in IF isdir /\ ~Truthy(program)
                     THEN {"missing", "unsupported", "supported"}
                     ELSE {"unread"} :
          \E lookup_dir_exists \in IF inference_check(isdir, program, model) = "ok"
                                      /\ LookupTableVar \in DOMAIN vars
                                   THEN BOOLEAN ELSE {FALSE} :
            \E listing \in IF lookup_dir_exists THEN Listings ELSE {<<>>} :
              load_persistables_for_inference(isdir, program, model,
                                              lookup_dir_exists, listing)

Init == InitConvert \/ InitLoad

Next == Convert \/ LoadIncrement \/ LoadInference

Spec == Init /\ [][Next]_vars_all

NextConvert == Convert

SpecConvert == InitConvert /\ [][NextConvert]_vars_all

NextLoad == LoadIncrement \/ LoadInference

SpecLoad == InitLoad /\ [][NextLoad]_vars_all

(***************************************************************************)
(* Claims about convert_dist_to_sparse_program (under SpecConvert, whose   *)
(* every step is one call).                                                *)
(***************************************************************************)
IsTripleAt(o, j) ==
    /\ j >= 1 /\ j + 2 <= Len(o)
    /\ o[j].type = "split_ids"
    /\ o[j + 1].type = "prefetch"
    /\ o[j + 2].type = "merge_ids"

HasTriple(o) == \E j \in 1..Len(o) : IsTripleAt(o, j)

FirstTriple(o) ==
    CHOOSE j \in 1..Len(o) :
        IsTripleAt(o, j) /\ \A i \in 1..(j - 1) : ~IsTripleAt(o, i)

TypesOf(o) == [m \in 1..Len(o) |-> o[m].type]

\* o2 is o with its first triple replaced, in place, by one
\* lookup_sparse_table op per (Ids of split_ids, Out of merge_ids) pair
FirstTripleReplaced(o, o2, t) ==
    LET j == FirstTriple(o)
        pairs == Zip(o[j].Ids, o[j + 2].Out)
        k == Len(pairs)
    IN  /\ Len(o2) = Len(o) - 3 + k
        /\ TypesOf(SubSeq(o2, 1, j - 1)) = TypesOf(SubSeq(o, 1, j - 1))
        /\ TypesOf(SubSeq(o2, j + k, Len(o2))) = TypesOf(SubSeq(o, j + 3, Len(o)))
        /\ \A m \in j..(j + k - 1) :
              /\ o2[m].type = "lookup_sparse_table"
              /\ <<"is_distributed", FALSE>> \in o2[m].attrs
              /\ <<"is_sparse", TRUE>> \in o2[m].attrs
              /\ o2[m].W = <<t>>
              /\ Len(o2[m].Ids) = 1 /\ Len(o2[m].Out) = 1
        /\ \A i \in 1..k : \E m \in j..(j + k - 1) :
              <<o2[m].Ids[1], o2[m].Out[1]>> = pairs[i]

\* C1: a call on a program whose distributed lookup table is set and whose ops
\* contain a consecutive split_ids, prefetch, merge_ids triple returns the
\* program with the first such triple replaced, at the index of its split_ids,
\* by one lookup_sparse_table op per (Ids, Out) pair; the other ops keep their
\* types and order, so the count is the old count - 3 + the number of pairs.
C1_FirstTripleReplaced ==
    [][(Truthy(table) /\ HasTriple(ops))
        => (call'.result = "program" /\ FirstTripleReplaced(ops, ops', table))]_vars_all

\* the scan of __get_prefetch_op_tuples reads op_types[i - 1] at i = 0, which
\* is the last op: a program that starts prefetch, merge_ids and ends split_ids
WrapsAround(o) ==
    /\ Len(o) >= 3
    /\ o[1].type = "prefetch"
    /\ o[2].type = "merge_ids"
    /\ o[Len(o)].type = "split_ids"

\* C1 holds of every program whose op list does not make the scan wrap around
C1_FirstTripleReplacedUnlessWrap ==
    [][(Truthy(table) /\ HasTriple(ops) /\ ~WrapsAround(ops))
        => (call'.result = "program" /\ FirstTripleReplaced(ops, ops', table))]_vars_all

\* C2: a call on a program with no distributed lookup table (None or empty)
\* returns None and leaves the ops, the variables and the table as they were.
C2_NoTableNoChange ==
    [][(call'.fn = "convert_dist_to_sparse_program" /\ ~Truthy(table))
        => (call'.result = None /\ ops' = ops /\ vars' = vars /\ table' = table)]_vars_all

C2_Witness ==
    /\ call.fn = "convert_dist_to_sparse_program"
    /\ call.result = None
    /\ table = ""
    /\ HasTriple(ops)

\* C3: after a successful call on a program with table T, the block holds the
\* original table variable under "T.origin" and a new, persistable,
\* SELECTED_ROWS variable T of the same shape and dtype; every variable other
\* than these two is what it was.
C3_TableVarReplaced ==
    [][(call'.fn = "convert_dist_to_sparse_program" /\ call'.result = "program")
        => LET T == table
               origin == T \o ".origin"
           IN  /\ T # origin
               /\ DOMAIN vars' = DOMAIN vars \cup {origin}
               /\ vars'[origin] = vars[T]
               /\ vars'[T].persistable = TRUE
               /\ vars'[T].type = "SELECTED_ROWS"
               /\ vars'[T].shape = vars[T].shape
               /\ vars'[T].dtype = vars[T].dtype
               /\ \A n \in DOMAIN vars \ {T, origin} : vars'[n] = vars[n]]_vars_all

C3_Witness ==
    /\ call.fn = "convert_dist_to_sparse_program"
    /\ call.result = "program"
    /\ "emb.origin" \in DOMAIN vars
    /\ vars["emb.origin"].type = "LOD_TENSOR"
    /\ vars["emb"].type = "SELECTED_ROWS"

(***************************************************************************)
(* Claims about the loaders (under SpecLoad).                              *)
(***************************************************************************)
ValueErrors ==
    {"ValueError: no directory", "ValueError: no file",
     "ValueError: not a Program", "ValueError: unsupported version"}

IncrementDone ==
    call.fn = "load_persistables_for_increment" /\ call.result = None

InferenceDone ==
    /\ call.fn = "load_persistables_for_inference"
    /\ call.result \in {"Program", "parsed Program"}

\* the load ops of a run, explicit ones and those of io.load_vars
LoadsOf(run, name) ==
    Cardinality({l \in run.loaded : l.var = name})
    + Cardinality({k \in 1..Len(run.ops) :
                     run.ops[k].type = "load" /\ run.ops[k].Out = <<name>>})

RECURSIVE SumLoads(_, _, _)
SumLoads(runs, k, name) ==
    IF k > Len(runs) THEN 0 ELSE LoadsOf(runs[k], name) + SumLoads(runs, k + 1, name)

\* C4: in a successful load_persistables_for_increment the dense load does not
\* load lookup_table_var, and lookup_table_var is loaded exactly once, from
\* lookup_table_var_path, by a load op of a program run after the dense load.
C4_TableLoadedOnceAfterDense ==
    IncrementDone =>
        /\ Len(executed) = 2
        /\ executed[1].by = "io.load_vars"
        /\ \A l \in executed[1].loaded : l.var # LookupTableVar
        /\ executed[2].by = "load_program"
        /\ executed[2].ops = <<LoadOp(LookupTableVar, LookupTableVarPath)>>
        /\ SumLoads(executed, 1, LookupTableVar) = 1

C4_Witness ==
    /\ IncrementDone
    /\ vars[LookupTableVar].persistable
    /\ executed[1].loaded # {}

\* C5: both loaders validate before they load.  load_persistables_for_increment
\* raises ValueError when dirname is no directory, when lookup_table_var_path
\* does not exist or when program is no Program; load_persistables_for_inference
\* raises ValueError when dirname is no directory, when a program is given (the
\* `if program` of the code) that is no Program, or when the program parsed from
\* __model__ has an unsupported version.  In each case the executor has run
\* nothing when the error is raised.
C5_ValidateBeforeLoad ==
    /\ (/\ call.fn = "load_persistables_for_increment"
        /\ (~call.dirname_isdir \/ ~call.path_exists \/ call.program # "Program"))
       => (call.result \in ValueErrors /\ executed = <<>>)
    /\ (/\ call.fn = "load_persistables_for_inference"
        /\ \/ ~call.dirname_isdir
           \/ (Truthy(call.program) /\ call.program # "Program")
           \/ call.model = "unsupported")
       => (call.result \in ValueErrors /\ executed = <<>>)
    /\ call.result \in ValueErrors => executed = <<>>

C5_Witness ==
    /\ call.fn = "load_persistables_for_inference"
    /\ call.result = "ValueError: unsupported version"
    /\ \E n \in DOMAIN vars : is_valid(n, vars[n], <<LookupTableVar>>)
    /\ executed = <<>>

\* the predicate of the claim, stated on its own
Accepted(name, desc, excluded) ==
    /\ desc.persistable
    /\ desc.type \notin {"FEED_MINIBATCH", "FETCH_LIST", "RAW"}
    /\ \A sub \in {"@GRAD", ".trainer_", ".block", "tmp_"} : ~Contains(sub, name)
    /\ name \notin excluded

\* C6: the dense load loads a variable if and only if it is persistable, its
\* type is none of FEED_MINIBATCH, FETCH_LIST, RAW, its name contains none of
\* "@GRAD", ".trainer_", ".block", "tmp_" and it is not the excluded lookup
\* table variable; no variable whose name ends with @GRAD is loaded.
C6_CheckpointPredicate ==
    \A k \in 1..Len(executed) :
        executed[k].by = "io.load_vars" =>
            /\ {l.var : l \in executed[k].loaded}
                 = {n \in DOMAIN vars : Accepted(n, vars[n], {LookupTableVar})}
            /\ \A n \in DOMAIN vars :
                 EndsWith(n, "@GRAD") => n \notin {l.var : l \in executed[k].loaded}

C6_Witness ==
    /\ Len(executed) >= 1
    /\ executed[1].by = "io.load_vars"
    /\ "fc_w@GRAD" \in DOMAIN vars
    /\ vars["fc_w@GRAD"].persistable
    /\ vars["fc_w@GRAD"].type = "LOD_TENSOR"
    /\ LookupTableVar \in DOMAIN vars
    /\ {l.var : l \in executed[1].loaded} = {"fc_w"}

\* the files of the listing whose name contains the lookup table variable name
ScanFound(listing) ==
    {listing[k] : k \in {i \in 1..Len(listing) : Contains(LookupTableVar, listing[i])}}

SeqRange(q) == {q[k] : k \in 1..Len(q)}

PathsRead == {executed[2].ops[k].file_path :
                 k \in {i \in 1..Len(executed[2].ops) : executed[2].ops[i].type = "load"}}

\* C8: the set of file paths read by the load ops of the conversion program is
\* the set of files the directory scan found.
C8_ReadsTheFilesFound ==
    InferenceDone =>
        PathsRead = {Join(Join(Dirname, lookup_table_dir), f) :
                        f \in ScanFound(call.listing)}

\* what the load ops read instead: <table name>_<i> for i below the number of
\* files found, whatever the files are called
C8_ReadsNumberedPaths ==
    InferenceDone =>
        PathsRead = {Join(Join(Dirname, lookup_table_dir),
                          LookupTableVar \o "_" \o ToString(i)) :
                        i \in 0..(Cardinality(ScanFound(call.listing)) - 1)}

====
